---------------------------- MODULE Spec2Model ----------------------------
(***************************************************************************)
(* Request admission, credential and ticketing core of plz-api:            *)
(* src/postgres.py (storage operations) and src/api.py (HTTP handlers).    *)
(***************************************************************************)
EXTENDS Integers, Sequences, FiniteSets, TLC

(***************************************************************************)
(* Bounds of the model.                                                    *)
(***************************************************************************)
MaxTime == 61
MaxTickets == 3
MaxBlock == 1
MaxIntake == 2
MaxCredentials == 2
MaxCatalog == 2
MaxPrint == 2
MaxSongs == 2
MaxRace == 4
MaxOpen == 2
MaxKeys == 1

(***************************************************************************)
(* Policy constants of the program.                                        *)
(***************************************************************************)
MinuteSeconds == 60
HourSeconds == 3600
DaySeconds == 86400
MinuteCap == 3
HourCap == 10
DayCap == 20
NameCap == 128
TitleCap == 256
NotesCap == 512

(***************************************************************************)
(* Python values.  A returned value is a tagged record: False, True, None, *)
(* a scalar id (row_id[0]), a fetched row (a 1-tuple holding an id), or a  *)
(* raised exception that leaves the function.                              *)
(***************************************************************************)
PyFalse == [t |-> "False", n |-> 0]
PyTrue == [t |-> "True", n |-> 0]
PyNone == [t |-> "None", n |-> 0]
PyRaise == [t |-> "raise", n |-> 0]
PyId(k) == [t |-> "id", n |-> k]
PyRow(k) == [t |-> "row", n |-> k]

\* Python truthiness of a returned value (ids are UUIDs or serials >= 1).
Truthy(v) == v.t \in {"True", "id", "row"}

(***************************************************************************)
(* JSON payload values.  A field is absent, or a string described by its   *)
(* lexical class (plain text, integer literal, UUID literal), the number   *)
(* it denotes, and its length.                                             *)
(***************************************************************************)
Absent == [kind |-> "absent", cls |-> "text", n |-> 0, len |-> 0]
Text(l) == [kind |-> "str", cls |-> "text", n |-> 0, len |-> l]
IntStr(k) == [kind |-> "str", cls |-> "int", n |-> k, len |-> 1]
UuidStr(k) == [kind |-> "str", cls |-> "uuid", n |-> k, len |-> 36]

\* 'key' in form_data
Has(form, key) == form[key].kind # "absent"
\* int(x): the value, or ValueError
py_int(v) == [ok |-> v.cls = "int", val |-> v.n]
\* UUID(x): the value, or ValueError
py_UUID(v) == [ok |-> v.cls = "uuid", val |-> v.n]
\* x[:cap]
Slice(v, cap) == IF v.len > cap THEN [v EXCEPT !.len = cap] ELSE v

(***************************************************************************)
(* Inputs.                                                                 *)
(***************************************************************************)
IPs == {"10.0.0.1", "10.0.0.2"}
\* No ip_address in the payload of block_ip.
NoIP == "-"
\* The reverse zone seen by socket.gethostbyaddr: a PTR name, or herror.
PTR(ip) == IF ip = "10.0.0.1" THEN "host1.example" ELSE "herror"
NULL == "NULL"
NoteValues == {Absent, Text(4)}

\* Outcomes of one statement run through insert() / select().
InsertFaults == {"none", "connect", "execute", "commit"}
SelectFaults == {"none", "connect", "execute"}

VARIABLES now, credential, blocklist, crate, artist, ticket, selected_request,
          freeform_request, last, hist, song, show_crate, proc, open

vars == <<now, credential, blocklist, crate, artist, ticket, selected_request,
          freeform_request, last, hist, song, show_crate, proc, open>>

\* The song library tables.
library == <<song, show_crate>>

tables == <<credential, blocklist, crate, artist, ticket, selected_request,
            freeform_request>>

(***************************************************************************)
(* The program is served by several workers side by side.  A call runs one *)
(* store statement per step: every statement goes through insert() or      *)
(* select(), which open their own connection and (insert) commit on their  *)
(* own, so the statements of different workers interleave freely.  proc    *)
(* holds, per worker, the call in flight: the statement it runs next (pc), *)
(* its inputs, the values earlier statements returned (tid, cid, aid), the *)
(* statements run so far (calls) and whether the store answered them all   *)
(* (dbok).  open counts the open store connections.                        *)
(*                                                                         *)
(* last is the answer of the step just taken, when that step ended a call: *)
(* the call's name and inputs, its returned value, the HTTP answer.  rows  *)
(* holds a fetched result; was tells whether the row a write addressed     *)
(* already held a value.  Four fields describe what the call met: blocked  *)
(* and tripped tell whether the address was on the blocklist and over a    *)
(* rate limit when the call arrived, hit whether a COUNT query of the call *)
(* ran while its window was over its cap, and quiet whether no other       *)
(* worker wrote to the store, and no time passed, between the arrival of   *)
(* the call and the end of its reads.                                      *)
(*                                                                         *)
(* hist remembers what earlier calls reported: the addresses the blocklist *)
(* insert reported stored, the credentials create_api_key handed out, the  *)
(* ticket ids the submission endpoints answered with, the ticket ids       *)
(* mark_ticket_as_printed reported marked, the values the catalog resolver *)
(* returned.                                                               *)
(***************************************************************************)
NoForm == [email |-> Absent, show_id |-> Absent, song_id |-> Absent,
           artist_name |-> Absent, song_title |-> Absent,
           submitted_by |-> Absent, notes |-> Absent]

\* A song_metadata payload ({} when empty) and a crate_ids value of the
\* associate_crates payload: a JSON list of ids, a string, or null.
NoMeta == [empty |-> TRUE, crate_name |-> Absent, artist |-> Absent,
           hash |-> Absent, title |-> 0, tempo |-> 0, key |-> "-"]
NoIds == [kind |-> "none", items |-> <<>>]

\* The credentials of a request: none sent.
NoCred == [id |-> Absent, secret |-> Absent]

NoCall == [op |-> "init", ip |-> NoIP, form |-> NoForm, arg |-> Absent,
           arg2 |-> Absent, cred |-> NoCred, ret |-> PyNone, code |-> 0,
           msg |-> "", calls |-> <<>>, dbok |-> TRUE, rows |-> <<>>,
           was |-> FALSE, meta |-> NoMeta, ids |-> NoIds, tid |-> PyNone,
           quiet |-> TRUE, blocked |-> FALSE, tripped |-> FALSE,
           hit |-> FALSE]

NoHist == [blockedOk |-> {}, issued |-> {}, submitted |-> {}, marked |-> {},
           resolved |-> {}]

\* The workers, and a worker between calls.
Procs == {1, 2}
Idle == [pc |-> "idle", op |-> "-", ip |-> NoIP, form |-> NoForm,
         arg |-> Absent, arg2 |-> Absent, cred |-> NoCred, meta |-> NoMeta,
         ids |-> NoIds, id |-> 0, fault |-> "none", flag |-> FALSE,
         tid |-> PyNone, cid |-> PyNone, aid |-> PyNone, calls |-> <<>>,
         dbok |-> TRUE, was |-> FALSE, quiet |-> TRUE, blocked |-> FALSE,
         tripped |-> FALSE, hit |-> FALSE]

\* A request is taken by the first worker that is idle.
Free(p) ==
    /\ proc[p].pc = "idle"
    /\ \A q \in Procs : q < p => proc[q].pc # "idle"

(***************************************************************************)
(* postgres.insert / postgres.select                                       *)
(***************************************************************************)
\* insert(query, data, return_inserted_row_id): the returned value.  rid is
\* the id the statement's RETURNING clause yields (0: no row came back).
insert(fault, return_inserted_row_id, rid) ==
    IF fault = "connect" THEN PyFalse
    ELSE IF fault = "execute" THEN PyFalse
    ELSE IF fault = "commit" THEN PyFalse
    ELSE IF return_inserted_row_id
         THEN (IF rid = 0 THEN PyNone ELSE PyId(rid))
         ELSE PyTrue

\* The statement's effect is durable only when execute and commit both passed.
Committed(fault) == fault = "none"

\* select(query, data): None on a failure, else the fetched rows.
select(fault, rows, empty) ==
    IF fault = "connect" THEN [isNone |-> TRUE, rows |-> empty]
    ELSE IF fault = "tz" THEN [isNone |-> TRUE, rows |-> empty]
    ELSE IF fault = "execute" THEN [isNone |-> TRUE, rows |-> empty]
    ELSE [isNone |-> FALSE, rows |-> rows]

(***************************************************************************)
(* Abuse guard                                                             *)
(***************************************************************************)
\* The lookup with the herror left unhandled.
get_reverse_dns_unhandled(ip_address) == PTR(ip_address)

get_reverse_dns(ip_address) ==
    IF PTR(ip_address) = "herror" THEN NULL ELSE PTR(ip_address)

add_to_blocklist(ip_address, notes, fault) ==
    LET reverse_dns == get_reverse_dns(ip_address)
        row == [ip_address |-> ip_address, reverse_dns |-> reverse_dns,
                notes |-> notes]
        status == insert(fault, FALSE, 0)
    IN  [ret |-> IF Truthy(status) THEN PyTrue ELSE PyFalse,
         blocklist |-> IF Committed(fault) THEN blocklist \cup {row}
                       ELSE blocklist]

\* The blocklist test with the address filter dropped.
is_blocked_any(ip_address, fault) ==
    LET rows == select(fault, blocklist, {})
    IN  IF ~rows.isNone /\ rows.rows # {} THEN TRUE ELSE FALSE

is_blocked(ip_address, fault) ==
    LET rows == select(fault, {b \in blocklist : b.ip_address = ip_address}, {})
    IN  IF ~rows.isNone /\ rows.rows # {} THEN TRUE ELSE FALSE

\* SELECT COUNT(ticket_id) FROM ticket
\*   WHERE requested_at >= (now() - INTERVAL w) AND ip_address = ip
CountSince(ip_address, w) ==
    Cardinality({t \in ticket : t.requested_at >= now - w
                                /\ t.ip_address = ip_address})

\* The window and the cap of the i-th COUNT query of is_rate_limited.
WindowOf(i) ==
    IF i = 1 THEN MinuteSeconds ELSE IF i = 2 THEN HourSeconds ELSE DaySeconds
CapOf(i) == IF i = 1 THEN MinuteCap ELSE IF i = 2 THEN HourCap ELSE DayCap

\* The i-th query and its test, the cap read as "more than".
is_rate_limited_gt(ip_address, i, fault) ==
    LET row_count == select(fault, <<CountSince(ip_address, WindowOf(i))>>, <<>>)
    IN  IF row_count.isNone THEN PyRaise
        ELSE IF row_count.rows[1] > CapOf(i) THEN PyTrue
        ELSE PyFalse

\* is_rate_limited, one query at a time: the i-th COUNT query and the test
\* that follows it.  select() returning None makes row_count[0][0] raise;
\* True ends the function, False goes on to the next query (after the third:
\* return False).
is_rate_limited(ip_address, i, fault) ==
    LET row_count == select(fault, <<CountSince(ip_address, WindowOf(i))>>, <<>>)
    IN  IF row_count.isNone THEN PyRaise
        ELSE IF row_count.rows[1] >= CapOf(i) THEN PyTrue
        ELSE PyFalse

(***************************************************************************)
(* Ticket intake (postgres.add_selected_request / add_freeform_request)    *)
(***************************************************************************)
\* 'show_id' in form_data, then int(form_data['show_id'])
field_show_id(form_data) ==
    IF Has(form_data, "show_id")
    THEN py_int(form_data.show_id)
    ELSE [ok |-> FALSE, val |-> 0]

\* 'song_id' in form_data, then UUID(form_data['song_id'])
field_song_id(form_data) ==
    IF Has(form_data, "song_id")
    THEN py_UUID(form_data.song_id)
    ELSE [ok |-> FALSE, val |-> 0]

\* A text field taken without the len != 0 test.
field_text_nocheck(form_data, key, cap) ==
    IF Has(form_data, key)
    THEN [ok |-> TRUE, val |-> Slice(form_data[key], cap)]
    ELSE [ok |-> FALSE, val |-> Absent]

\* A required text field: present, len != 0, cut to cap characters.
field_text(form_data, key, cap) ==
    IF Has(form_data, key)
    THEN IF form_data[key].len = 0
         THEN [ok |-> FALSE, val |-> Absent]
         ELSE [ok |-> TRUE, val |-> Slice(form_data[key], cap)]
    ELSE [ok |-> FALSE, val |-> Absent]

\* notes: optional, cut to 512 characters, None when absent.
field_notes(form_data) ==
    IF Has(form_data, "notes") THEN Slice(form_data.notes, NotesCap) ELSE Absent

NewTicket(show_id, submitted_by, ip_address, notes) ==
    [ticket_id |-> Cardinality(ticket) + 1, show_id |-> show_id,
     requested_by |-> submitted_by, ip_address |-> ip_address,
     reverse_dns |-> get_reverse_dns(ip_address), notes |-> notes,
     requested_at |-> now, printed |-> FALSE]

\* The variant insert as it runs after the ticket insert returned ticket_id.
\* A ticket insert that failed returned False, which is not None: the variant
\* insert is then run with ticket_id = False and the store refuses it.
VariantFault(ticket_id, f2) ==
    IF ticket_id.t = "id" THEN f2
    ELSE IF f2 = "connect" THEN "connect" ELSE "execute"


\* The validation of add_selected_request (lines 498-530): the values it
\* hands to its two INSERTs, or ok = FALSE where it returns False.
selected_fields(form_data) ==
    LET show_id == field_show_id(form_data)
        song_id == field_song_id(form_data)
        submitted_by == field_text(form_data, "submitted_by", NameCap)
    IN  [ok |-> show_id.ok /\ song_id.ok /\ submitted_by.ok,
         show_id |-> show_id.val, song_id |-> song_id.val,
         artist_name |-> Absent, song_title |-> Absent,
         submitted_by |-> submitted_by.val, notes |-> field_notes(form_data)]

\* The validation of add_freeform_request (lines 556-597).
freeform_fields(form_data) ==
    LET show_id == field_show_id(form_data)
        artist_name == field_text(form_data, "artist_name", NameCap)
        song_title == field_text(form_data, "song_title", TitleCap)
        submitted_by == field_text(form_data, "submitted_by", NameCap)
    IN  [ok |-> show_id.ok /\ artist_name.ok /\ song_title.ok
                /\ submitted_by.ok,
         show_id |-> show_id.val, song_id |-> 0,
         artist_name |-> artist_name.val, song_title |-> song_title.val,
         submitted_by |-> submitted_by.val, notes |-> field_notes(form_data)]

(***************************************************************************)
(* Payloads of the two submission endpoints.                               *)
(***************************************************************************)
FormBase == [NoForm EXCEPT !.show_id = IntStr(1), !.submitted_by = Text(1)]
FreeShort == [FormBase EXCEPT !.artist_name = Text(1), !.song_title = Text(1)]
FreeLong ==
    [FormBase EXCEPT !.artist_name = Text(NameCap + 1),
                     !.song_title = Text(TitleCap + 1),
                     !.submitted_by = Text(NameCap + 1),
                     !.notes = Text(NotesCap + 1), !.email = Text(0)]
SelShort == [FormBase EXCEPT !.song_id = UuidStr(1)]
SelLong ==
    [SelShort EXCEPT !.submitted_by = Text(NameCap + 1),
                     !.notes = Text(NotesCap + 1), !.email = Text(0)]

\* Every way of spoiling one field: missing, empty, malformed.
Spoil(form, key) ==
    {[form EXCEPT ![key] = Absent], [form EXCEPT ![key] = Text(0)],
     [form EXCEPT ![key] = Text(3)]}

FreeformForms ==
    {FreeShort, FreeLong} \cup Spoil(FreeShort, "show_id")
    \cup (Spoil(FreeShort, "artist_name") \ {[FreeShort EXCEPT !.artist_name = Text(3)]})
    \cup (Spoil(FreeShort, "song_title") \ {[FreeShort EXCEPT !.song_title = Text(3)]})
    \cup (Spoil(FreeShort, "submitted_by") \ {[FreeShort EXCEPT !.submitted_by = Text(3)]})

SelectedForms ==
    {SelShort, SelLong} \cup Spoil(SelShort, "show_id")
    \cup Spoil(SelShort, "song_id")
    \cup (Spoil(SelShort, "submitted_by") \ {[SelShort EXCEPT !.submitted_by = Text(3)]})

\* Payloads the HTTP handlers are driven with: valid, invalid, and with the
\* email field filled in.
Honeypot(form) == [form EXCEPT !.email = Text(5)]
ApiFreeformForms ==
    {[FreeShort EXCEPT !.email = Text(0)], Honeypot(FreeShort), Honeypot(NoForm)}
ApiSelectedForms ==
    {SelShort, Honeypot(SelShort), Honeypot(NoForm)}

(***************************************************************************)
(* Initial state: an empty store, no call in flight, the server clock at   *)
(* some instant.                                                           *)
(***************************************************************************)
Init ==
    /\ now = DaySeconds
    /\ credential = {}
    /\ blocklist = {}
    /\ crate = {}
    /\ artist = {}
    /\ ticket = {}
    /\ selected_request = {}
    /\ freeform_request = {}
    /\ last = NoCall
    /\ hist = NoHist
    /\ song = {}
    /\ show_crate = {}
    /\ proc = [p \in Procs |-> Idle]
    /\ open = 0

(***************************************************************************)
(* What the specification calls blocked and rate-limited, read off the     *)
(* stored rows.                                                            *)
(***************************************************************************)
Blocked(ip) == \E b \in blocklist : b.ip_address = ip

TicketsWithin(ip, w) ==
    {t \in ticket : t.ip_address = ip /\ now - t.requested_at <= w}

WindowTripped(ip, i) == Cardinality(TicketsWithin(ip, WindowOf(i))) >= CapOf(i)

Tripped(ip) == \E i \in 1..3 : WindowTripped(ip, i)

(***************************************************************************)
(* Steps of a worker.  Others(p, wrote) is what a step of worker p does to *)
(* the calls of the other workers: when the step wrote to the store (or    *)
(* time passed), a call that is still reading is no longer quiet.  Return  *)
(* ends the call of worker p with an answer; Goto leaves it at its next    *)
(* statement.  quiet is kept for the calls whose answer depends on what    *)
(* they read: the submissions, is_rate_limited and the catalog resolver.   *)
(***************************************************************************)
Reading(c) ==
    /\ c.pc \notin {"idle", "ticket", "variant"}
    /\ c.op \notin {"insert_song_metadata", "block_ip", "associate_crates"}

Others(p, wrote) ==
    [q \in Procs |->
        IF wrote /\ q # p /\ Reading(proc[q])
        THEN [proc[q] EXCEPT !.quiet = FALSE]
        ELSE proc[q]]

Return(p, c, ret, code, msg, wrote) ==
    /\ proc' = [Others(p, wrote) EXCEPT ![p] = Idle]
    /\ last' = [NoCall EXCEPT
                  !.op = c.op, !.ip = c.ip, !.form = c.form, !.arg = c.arg,
                  !.arg2 = c.arg2, !.cred = c.cred, !.meta = c.meta,
                  !.ids = c.ids, !.ret = ret, !.code = code, !.msg = msg,
                  !.calls = c.calls, !.dbok = c.dbok, !.was = c.was,
                  !.tid = c.tid, !.quiet = c.quiet, !.blocked = c.blocked,
                  !.tripped = c.tripped, !.hit = c.hit]

Goto(p, c, pc, wrote) ==
    /\ proc' = [Others(p, wrote) EXCEPT ![p] = [c EXCEPT !.pc = pc]]
    /\ last' = NoCall

\* The call of worker p after it ran the statement named call with outcome
\* fault.
Ran(p, call, fault) ==
    [proc[p] EXCEPT !.calls = Append(@, call),
                    !.dbok = @ /\ fault = "none"]

TickSteps == {MinuteSeconds, MinuteSeconds + 1}

\* Time passes.
Tick(Steps) ==
    \E d \in Steps :
        /\ now + d <= DaySeconds + MaxTime
        /\ now' = now + d
        /\ proc' = Others(0, TRUE)
        /\ last' = [NoCall EXCEPT !.op = "tick"]
        /\ UNCHANGED <<library, open, tables, hist>>

(***************************************************************************)
(* The two public submission endpoints (api.py 163-218) and the intake     *)
(* functions they call (postgres.py 494-616).                              *)
(***************************************************************************)
MsgWrong == "Something went wrong inserting your data"

\* form_data['email'] present and truthy
EmailFilled(form_data) == Has(form_data, "email") /\ form_data.email.len > 0

\* A handler without the honeypot test.
api_honeypot_never(form_data) == FALSE

\* The honeypot test of lines 168-169 / 197-198.
api_honeypot(form_data) == EmailFilled(form_data)

ApiOps == {"api_add_selected_request", "api_add_freeform_request"}
IntakeCalls == {"add_selected_request", "add_freeform_request"}
SelectedOps == {"api_add_selected_request", "add_selected_request"}

\* The intake function an entry point runs, and the values it validated.
IntakeOf(op) ==
    IF op \in SelectedOps THEN "add_selected_request"
    ELSE "add_freeform_request"

Fields(c) ==
    IF c.op \in SelectedOps THEN selected_fields(c.form)
    ELSE freeform_fields(c.form)

CountPc(i) == IF i = 1 THEN "count1" ELSE IF i = 2 THEN "count2" ELSE "count3"

\* The value an intake function returned, as its caller answers it: the
\* handler with 201 and the ticket id or with 500 (lines 184-189, 213-218).
Reply(p, c, ret, wrote) ==
    IF c.op \in ApiOps
    THEN Return(p, c, ret, IF Truthy(ret) THEN 201 ELSE 500,
                IF Truthy(ret) THEN "ticket_id" ELSE MsgWrong, wrote)
    ELSE Return(p, c, ret, 0, "", wrote)

\* An intake function is entered: it validates the payload and returns False
\* or goes on to its first INSERT.
Intake(p, c) ==
    LET d == IF c.op \in ApiOps
             THEN [c EXCEPT !.calls = Append(@, IntakeOf(c.op))] ELSE c
    IN  IF Fields(c).ok THEN Goto(p, d, "ticket", FALSE)
        ELSE Reply(p, d, PyFalse, FALSE)

\* A request arrives at a submission endpoint: the honeypot test.
Submit(p, op, Forms, Addrs) ==
    \E form_data \in Forms, remote_addr \in Addrs :
        LET c == [Idle EXCEPT !.op = op, !.ip = remote_addr,
                              !.form = form_data,
                              !.blocked = Blocked(remote_addr),
                              !.tripped = Tripped(remote_addr)]
        IN  /\ Free(p)
            /\ IF api_honeypot(form_data)
               THEN Return(p, c, PyNone, 201, "Success!", FALSE)
               ELSE Goto(p, c, "is_blocked", FALSE)
            /\ UNCHANGED <<library, open, now, tables, hist>>

api_add_selected_request(p, Forms, Addrs) ==
    Submit(p, "api_add_selected_request", Forms, Addrs)

api_add_freeform_request(p, Forms, Addrs) ==
    Submit(p, "api_add_freeform_request", Forms, Addrs)

\* An intake function is called on its own.
Call(p, op, Forms, Addrs) ==
    \E form_data \in Forms, ip_address \in Addrs :
        /\ Free(p)
        /\ Intake(p, [Idle EXCEPT !.op = op, !.ip = ip_address,
                                  !.form = form_data,
                                  !.blocked = Blocked(ip_address),
                                  !.tripped = Tripped(ip_address)])
        /\ UNCHANGED <<library, open, now, tables, hist>>

add_selected_request(p, Forms, Addrs) ==
    Call(p, "add_selected_request", Forms, Addrs)

add_freeform_request(p, Forms, Addrs) ==
    Call(p, "add_freeform_request", Forms, Addrs)

\* is_rate_limited is called on its own.
call_is_rate_limited(p) ==
    \E ip_address \in IPs :
        /\ Free(p)
        /\ Goto(p, [Idle EXCEPT !.op = "is_rate_limited", !.ip = ip_address,
                                !.tripped = Tripped(ip_address)],
                CountPc(1), FALSE)
        /\ UNCHANGED <<library, open, now, tables, hist>>

\* The handler's is_blocked call (lines 174-176): one SELECT.
run_is_blocked(p, Faults) ==
    \E fault \in Faults :
        LET c == Ran(p, "is_blocked", fault)
        IN  /\ proc[p].pc = "is_blocked"
            /\ IF is_blocked(c.ip, fault)
               THEN Return(p, c, PyNone, 500, MsgWrong, FALSE)
               ELSE Goto(p, c, CountPc(1), FALSE)
            /\ UNCHANGED <<library, open, now, tables, hist>>

\* One COUNT query of is_rate_limited and what follows it up to the next
\* statement: the exception, the return of True (answered 401 by a handler,
\* lines 179-181), the next query, or after the third query the return of
\* False, on which a handler enters its intake function.
run_count_query(p, Faults) ==
    \E i \in 1..3, fault \in Faults :
        LET me == proc[p]
            api == me.op \in ApiOps
            r == is_rate_limited(me.ip, i, fault)
            c == [me EXCEPT
                    !.calls = IF i = 1 THEN Append(@, "is_rate_limited") ELSE @,
                    !.dbok = @ /\ fault = "none",
                    !.hit = @ \/ WindowTripped(me.ip, i)]
        IN  /\ me.pc = CountPc(i)
            /\ IF r = PyRaise
               THEN Return(p, c, PyRaise, IF api THEN 500 ELSE 0, "exception",
                           FALSE)
               ELSE IF r = PyTrue
               THEN (IF api THEN Return(p, c, PyNone, 401, "Rate-limited", FALSE)
                     ELSE Return(p, c, PyTrue, 0, "", FALSE))
               ELSE IF i < 3 THEN Goto(p, c, CountPc(i + 1), FALSE)
               ELSE IF api THEN Intake(p, c)
               ELSE Return(p, c, PyFalse, 0, "", FALSE)
            /\ UNCHANGED <<library, open, now, tables, hist>>

\* INSERT INTO ticket ... RETURNING ticket_id (lines 534-540, 601-606).
run_insert_ticket(p, Faults, cap) ==
    \E fault \in Faults :
        LET me == proc[p]
            f == Fields(me)
            row == NewTicket(f.show_id, f.submitted_by, me.ip, f.notes)
            ticket_id == insert(fault, TRUE, row.ticket_id)
            c == [Ran(p, "insert ticket", fault) EXCEPT !.tid = ticket_id]
        IN  /\ me.pc = "ticket"
            /\ Cardinality(ticket) < cap
            /\ ticket' = IF Committed(fault) THEN ticket \cup {row} ELSE ticket
            /\ IF ticket_id = PyNone
               THEN Reply(p, c, PyFalse, Committed(fault))
               ELSE Goto(p, c, "variant", Committed(fault))
            /\ UNCHANGED <<library, open, now, credential, blocklist, crate,
                           artist, selected_request, freeform_request, hist>>

\* INSERT INTO selected_request / freeform_request and the return of the
\* intake function (lines 542-550, 608-616).
run_insert_variant(p, Faults) ==
    \E f2 \in Faults :
        LET me == proc[p]
            f == Fields(me)
            g2 == VariantFault(me.tid, f2)
            result == insert(g2, FALSE, 0)
            ret == IF Truthy(result) THEN me.tid ELSE PyFalse
            c == Ran(p, IF me.op \in SelectedOps THEN "insert selected_request"
                        ELSE "insert freeform_request", g2)
        IN  /\ me.pc = "variant"
            /\ me.tid.t # "id" => f2 \in {"none", "connect"}
            /\ IF me.op \in SelectedOps
               THEN /\ selected_request' =
                          IF Committed(g2)
                          THEN selected_request \cup
                               {[ticket_id |-> me.tid.n, song_id |-> f.song_id]}
                          ELSE selected_request
                    /\ UNCHANGED freeform_request
               ELSE /\ freeform_request' =
                          IF Committed(g2)
                          THEN freeform_request \cup
                               {[ticket_id |-> me.tid.n,
                                 artist_name |-> f.artist_name,
                                 song_title |-> f.song_title]}
                          ELSE freeform_request
                    /\ UNCHANGED selected_request
            /\ hist' = IF Truthy(ret) /\ me.op \in ApiOps
                       THEN [hist EXCEPT !.submitted = @ \cup {ret.n}]
                       ELSE hist
            /\ Reply(p, c, ret, Committed(g2))
            /\ UNCHANGED <<library, open, now, credential, blocklist, crate,
                           artist, ticket>>

\* is_blocked called on its own: one SELECT.
call_is_blocked ==
    \E ip \in IPs, fault \in SelectFaults :
        /\ last' = [NoCall EXCEPT !.op = "is_blocked", !.ip = ip,
                       !.ret = IF is_blocked(ip, fault) THEN PyTrue ELSE PyFalse,
                       !.calls = <<"is_blocked">>,
                       !.dbok = (fault = "none")]
        /\ UNCHANGED <<library, open, proc, now, tables, hist>>

(***************************************************************************)
(* Credential store (postgres.create_api_key / verify_api_key).            *)
(***************************************************************************)
\* secrets.token_urlsafe(64): the k-th secret the generator can hand out.
Secret(k) == [kind |-> "str", cls |-> "text", n |-> k, len |-> 86]
SecretDraws == {1, 2}

\* PasswordHasher.hash: an argon2 hash stands for the password it was made of.
ph_hash(password) == [alg |-> "argon2id", pw |-> password.n, len |-> password.len]

\* PasswordHasher.verify: True on a match, VerifyMismatchError otherwise.
ph_verify(hash, password) ==
    IF hash.pw = password.n /\ hash.len = password.len THEN PyTrue ELSE PyRaise

\* PasswordHasher.check_needs_rehash of a hash made with the same parameters.
ph_check_needs_rehash(hash) == hash.alg # "argon2id"

create_api_key(k, fault) ==
    LET secret == Secret(k)
        hash == ph_hash(secret)
        new_id == Cardinality(credential) + 1
        credential_id == insert(fault, TRUE, new_id)
        row == [credential_id |-> new_id, password_hash |-> hash,
                active |-> TRUE]
    IN  IF ~Truthy(ph_verify(hash, secret))
        THEN [ret |-> PyFalse, secret |-> Absent, credential |-> credential]
        ELSE IF ph_check_needs_rehash(hash)
        THEN [ret |-> PyFalse, secret |-> Absent, credential |-> credential]
        ELSE IF ~Truthy(credential_id)
        THEN [ret |-> PyFalse, secret |-> Absent, credential |-> credential]
        ELSE [ret |-> credential_id, secret |-> secret,
              credential |-> credential \cup {row}]

\* The SELECT of verify_api_key: a credential_id that is no identifier of
\* the column's type makes the statement fail.
CredentialSelectFault(credential_id, fault) ==
    IF fault = "none" /\ credential_id.cls # "uuid" THEN "execute" ELSE fault

verify_api_key(credential_id, secret, fault) ==
    LET rows == select(CredentialSelectFault(credential_id, fault),
                       {c \in credential :
                           c.credential_id = credential_id.n /\ c.active},
                       {})
    IN  IF credential_id.kind = "absent" \/ credential_id.len = 0 THEN PyFalse
        ELSE IF secret.kind = "absent" \/ secret.len = 0 THEN PyFalse
        ELSE IF rows.isNone \/ rows.rows = {} THEN PyFalse
        ELSE LET hash == (CHOOSE c \in rows.rows : TRUE).password_hash
                 v == ph_verify(hash, secret)
             IN  IF v = PyRaise THEN PyRaise
                 ELSE IF ~Truthy(v) THEN PyFalse
                 ELSE PyTrue

CredentialIds == {Absent, Text(0), Text(3), UuidStr(1), UuidStr(2), UuidStr(3)}
SecretInputs == {Absent, Text(0), Secret(1), Secret(2)}

\* create_api_key as called by the api_key endpoint: one INSERT.
call_create_api_key(Draws, cap) ==
    \E k \in Draws, fault \in InsertFaults :
    \E r \in {create_api_key(k, fault)} :
        /\ Cardinality(r.credential) <= cap
        /\ credential' = r.credential
        /\ last' = [NoCall EXCEPT !.op = "create_api_key", !.ret = r.ret,
                       !.arg2 = r.secret, !.dbok = (fault = "none")]
        /\ hist' = IF Truthy(r.ret)
                   THEN [hist EXCEPT !.issued =
                            @ \cup {[credential_id |-> r.ret.n,
                                     secret |-> r.secret]}]
                   ELSE hist
        /\ proc' = Others(0, Truthy(r.ret))
        /\ UNCHANGED <<library, open, now, blocklist, crate, artist, ticket,
                       selected_request, freeform_request>>

\* verify_api_key called on its own: at most one SELECT.
call_verify_api_key ==
    \E credential_id \in CredentialIds, secret \in SecretInputs,
       fault \in SelectFaults :
        /\ last' = [NoCall EXCEPT
                      !.op = "verify_api_key", !.arg = credential_id,
                      !.arg2 = secret,
                      !.ret = verify_api_key(credential_id, secret, fault),
                      !.dbok = (fault = "none")]
        /\ UNCHANGED <<library, open, proc, now, tables, hist>>

\* Revocation, done on the store by an operator: active is set to false.
deactivate ==
    \E c \in credential :
        /\ c.active
        /\ credential' = (credential \ {c}) \cup {[c EXCEPT !.active = FALSE]}
        /\ last' = [NoCall EXCEPT !.op = "deactivate",
                                  !.arg = UuidStr(c.credential_id)]
        /\ proc' = Others(0, TRUE)
        /\ UNCHANGED <<library, open, now, blocklist, crate, artist, ticket,
                       selected_request, freeform_request, hist>>

(***************************************************************************)
(* Handlers under @auth.login_required: flask_httpauth calls               *)
(* verify_password, which calls verify_api_key, before the handler's body. *)
(* A request that sends no credentials is verified with empty strings.     *)
(***************************************************************************)
Unauthorized == "Unauthorized Access"

\* The credentials requests are sent with: none, an issued pair, an issued
\* id with another secret, an id that was never issued.
Issued == [id |-> UuidStr(1), secret |-> Secret(1)]

Credentials ==
    {NoCred, Issued,
     [id |-> UuidStr(1), secret |-> Secret(2)],
     [id |-> UuidStr(2), secret |-> Secret(1)]}

\* verify_api_key returns before its SELECT (lines 261-265).
NoStatement(credential_id, secret) ==
    \/ credential_id.kind = "absent" \/ credential_id.len = 0
    \/ secret.kind = "absent" \/ secret.len = 0

\* A request arrives at a guarded handler.
Guard(p, c, Creds) ==
    \E cred \in Creds :
        LET d == [c EXCEPT !.cred = cred, !.calls = <<"verify_api_key">>]
        IN  /\ Free(p)
            /\ IF NoStatement(cred.id, cred.secret)
               THEN Return(p, d, PyNone, 401, Unauthorized, FALSE)
               ELSE Goto(p, d, "auth", FALSE)
            /\ UNCHANGED <<library, open, now, tables, hist>>

\* POST /api/v2/block_ip
block_ip(p, Creds, Notes) ==
    \E ip \in IPs \cup {NoIP}, notes \in Notes :
        /\ ip = NoIP => notes = Absent
        /\ Guard(p, [Idle EXCEPT !.op = "block_ip", !.ip = ip, !.arg = notes],
                 Creds)

\* The SELECT of verify_api_key run for the guard, and the handler's body up
\* to its first statement.
run_verify_api_key(p, Faults) ==
    \E fault \in Faults :
        LET me == proc[p]
            v == verify_api_key(me.cred.id, me.cred.secret, fault)
            c == [me EXCEPT !.dbok = @ /\ fault = "none"]
        IN  /\ me.pc = "auth"
            /\ IF v = PyRaise
               THEN Return(p, c, PyRaise, 500, "exception", FALSE)
               ELSE IF v # PyTrue
               THEN Return(p, c, PyNone, 401, Unauthorized, FALSE)
               ELSE IF me.op = "block_ip" /\ me.ip = NoIP
               THEN Return(p, c, PyNone, 400, "No IP address given", FALSE)
               ELSE Goto(p, c, IF me.op = "block_ip" THEN "blocklist"
                               ELSE "associate", FALSE)
            /\ UNCHANGED <<library, open, now, tables, hist>>

\* The body of block_ip: add_to_blocklist and the answer (lines 315-320).
run_add_to_blocklist(p, Faults) ==
    \E fault \in Faults :
        LET me == proc[p]
            r == add_to_blocklist(me.ip, me.arg, fault)
            c == Ran(p, "add_to_blocklist", fault)
        IN  /\ me.pc = "blocklist"
            /\ Cardinality(r.blocklist) <= MaxBlock
            /\ blocklist' = r.blocklist
            /\ hist' = IF Truthy(r.ret)
                       THEN [hist EXCEPT !.blockedOk = @ \cup {me.ip}]
                       ELSE hist
            /\ Return(p, c, r.ret, IF Truthy(r.ret) THEN 201 ELSE 500, "",
                      Committed(fault))
            /\ UNCHANGED <<library, open, now, credential, crate, artist,
                           ticket, selected_request, freeform_request>>

(***************************************************************************)
(* Catalog resolver (postgres.create_crate / create_artist): a lookup and, *)
(* when it finds nothing, an insert.  The two are called on their own and  *)
(* by insert_song_metadata.                                                *)
(***************************************************************************)
Name(k) == [kind |-> "str", cls |-> "text", n |-> k, len |-> 5]
CatalogNames == {Absent, Name(1), Name(2)}
NoRow == [id |-> 0, name |-> Absent]

CatalogOps == {"create_crate", "create_artist"}
CratePcs == {"crate_select", "crate_insert"}
ResolverPcs == {"crate_select", "crate_insert", "artist_select",
                "artist_insert"}

\* The table a resolver statement addresses and the name it looks for.
TableAt(pc) == IF pc \in CratePcs THEN crate ELSE artist

NameAt(c) ==
    IF c.op \in CatalogOps THEN c.arg
    ELSE IF c.pc \in CratePcs THEN c.meta.crate_name
    ELSE c.meta.artist

\* The rows a lookup of name can fetch first.
FirstRows(table, name) ==
    IF \E c \in table : c.name = name
    THEN {c \in table : c.name = name}
    ELSE {NoRow}

\* A hex string of a song's audio hash.
Hex(k) == [kind |-> "str", cls |-> "hex", n |-> k, len |-> 64]

\* bytes.fromhex(x): the bytes, or ValueError
bytes_fromhex(v) == [ok |-> v.cls = "hex", val |-> v.n]

\* The resolver returns v to its caller: to the caller of create_crate or
\* create_artist, or into insert_song_metadata (lines 413-425), which goes
\* on to the artist, to bytes.fromhex and to the upsert.
Resolved(p, c, v, wrote) ==
    IF c.op \in CatalogOps
    THEN /\ Return(p, c, v, 0, "", wrote)
         /\ hist' = [hist EXCEPT !.resolved =
                        IF c.quiet /\ c.dbok
                        THEN {[op |-> c.op, name |-> c.arg, ret |-> v]}
                        ELSE {}]
    ELSE /\ UNCHANGED hist
         /\ IF ~Truthy(v) THEN Return(p, c, PyNone, 0, "", wrote)
            ELSE IF c.pc \in CratePcs
            THEN (IF c.meta.artist = Absent
                  THEN Return(p, [c EXCEPT !.cid = v], PyNone, 0, "", wrote)
                  ELSE Goto(p, [c EXCEPT !.cid = v], "artist_select", wrote))
            ELSE IF ~bytes_fromhex(c.meta.hash).ok
            THEN Return(p, [c EXCEPT !.aid = v], PyRaise, 0, "exception", wrote)
            ELSE Goto(p, [c EXCEPT !.aid = v], "upsert", wrote)

\* create_crate / create_artist is called: None for the name None.
Resolve(p, op, Names) ==
    \E name \in Names :
        LET c == [Idle EXCEPT !.op = op, !.arg = name]
        IN  /\ Free(p)
            /\ IF name = Absent
               THEN Return(p, c, PyNone, 0, "", FALSE)
               ELSE Goto(p, c, IF op = "create_crate" THEN "crate_select"
                               ELSE "artist_select", FALSE)
            /\ UNCHANGED <<library, open, now, tables, hist>>

create_crate(p, Names) == Resolve(p, "create_crate", Names)

create_artist(p, Names) == Resolve(p, "create_artist", Names)

\* SELECT crate_id FROM crate WHERE crate_name = %s (artist likewise): the
\* first fetched row is returned; with no row, or with None from select(),
\* the call goes on to its INSERT.
run_resolve_select(p, Faults) ==
    \E fault \in Faults :
    \E first \in FirstRows(TableAt(proc[p].pc), NameAt(proc[p])) :
        LET me == proc[p]
            rows == select(fault,
                           {r \in TableAt(me.pc) : r.name = NameAt(me)}, {})
            c == Ran(p, "select", fault)
        IN  /\ me.pc \in {"crate_select", "artist_select"}
            /\ IF ~rows.isNone /\ rows.rows # {}
               THEN Resolved(p, c, PyRow(first.id), FALSE)
               ELSE /\ Goto(p, c, IF me.pc \in CratePcs THEN "crate_insert"
                                  ELSE "artist_insert", FALSE)
                    /\ UNCHANGED hist
            /\ UNCHANGED <<library, open, now, tables>>

\* INSERT INTO crate (crate_name) VALUES (%s) RETURNING crate_id (artist
\* likewise): the new id, or None.
run_resolve_insert(p, Faults, cap) ==
    \E fault \in Faults :
        LET me == proc[p]
            rows == TableAt(me.pc)
            new_id == Cardinality(rows) + 1
            inserted == insert(fault, TRUE, new_id)
            after == IF Committed(fault)
                     THEN rows \cup {[id |-> new_id, name |-> NameAt(me)]}
                     ELSE rows
            c == Ran(p, "insert", fault)
        IN  /\ me.pc \in {"crate_insert", "artist_insert"}
            /\ Cardinality(rows) < cap
            /\ IF me.pc \in CratePcs
               THEN crate' = after /\ UNCHANGED artist
               ELSE artist' = after /\ UNCHANGED crate
            /\ Resolved(p, c, IF Truthy(inserted) THEN inserted ELSE PyNone,
                        Committed(fault))
            /\ UNCHANGED <<library, open, now, credential, blocklist, ticket,
                           selected_request, freeform_request>>

(***************************************************************************)
(* Song library (postgres.insert_song_metadata): the crate and the artist  *)
(* are resolved, then the song is upserted by its hash.                    *)
(***************************************************************************)
Meta(crate_name, artist_name, hash, version) ==
    [empty |-> FALSE, crate_name |-> crate_name, artist |-> artist_name,
     hash |-> hash, title |-> version, tempo |-> 120 + version,
     key |-> IF version = 1 THEN "Am" ELSE "C"]

SongInputs ==
    {NoMeta,
     Meta(Name(1), Name(1), Hex(1), 1), Meta(Name(1), Name(2), Hex(1), 2),
     Meta(Name(1), Name(1), Hex(2), 1),
     Meta(Absent, Name(1), Hex(1), 1), Meta(Name(1), Absent, Hex(1), 1),
     Meta(Name(1), Name(1), Text(3), 1)}

\* INSERT INTO song ... with the ON CONFLICT clause left out.
song_upsert_plain(rows, new) == rows \cup {new}

\* INSERT INTO song ... ON CONFLICT (hash) DO UPDATE SET artist_id, song_title,
\* song_tempo, song_key
song_upsert(rows, new) ==
    IF \E r \in rows : r.hash = new.hash
    THEN {IF r.hash = new.hash
          THEN [r EXCEPT !.artist_id = new.artist_id,
                         !.song_title = new.song_title,
                         !.song_tempo = new.song_tempo,
                         !.song_key = new.song_key]
          ELSE r : r \in rows}
    ELSE rows \cup {new}

\* RETURNING song_id: the id of the row the statement wrote.
ReturnedSongId(rows, new) ==
    IF \E r \in rows : r.hash = new.hash
    THEN (CHOOSE r \in rows : r.hash = new.hash).song_id
    ELSE new.song_id

\* insert_song_metadata is called: None for an empty payload, and None from
\* create_crate for the crate name None.
insert_song_metadata(p, Inputs) ==
    \E song_metadata \in Inputs :
        LET c == [Idle EXCEPT !.op = "insert_song_metadata",
                              !.meta = song_metadata]
        IN  /\ Free(p)
            /\ IF song_metadata.empty
               THEN Return(p, c, PyNone, 0, "", FALSE)
               ELSE IF song_metadata.crate_name = Absent
               THEN Return(p, c, PyNone, 0, "", FALSE)
               ELSE Goto(p, c, "crate_select", FALSE)
            /\ UNCHANGED <<library, open, now, tables, hist>>

\* The upsert of lines 429-448 and the return of its song_id.
run_song_upsert(p, Faults, cap) ==
    \E fault \in Faults :
        LET me == proc[p]
            new == [song_id |-> Cardinality(song) + 1, crate_id |-> me.cid.n,
                    hash |-> bytes_fromhex(me.meta.hash).val,
                    artist_id |-> me.aid.n,
                    song_title |-> me.meta.title,
                    song_tempo |-> me.meta.tempo,
                    song_key |-> me.meta.key]
            song_id == insert(fault, TRUE, ReturnedSongId(song, new))
            c == [Ran(p, "upsert", fault) EXCEPT
                    !.was = \E s \in song : /\ s.hash = new.hash
                                            /\ s.song_title # new.song_title]
        IN  /\ me.pc = "upsert"
            /\ song' = IF Committed(fault) THEN song_upsert(song, new) ELSE song
            /\ Cardinality(song') <= cap
            /\ Return(p, c, song_id, 0, "", Committed(fault))
            /\ UNCHANGED <<show_crate, open, now, tables, hist>>

(***************************************************************************)
(* Crate association (postgres.associate_crates and its endpoint).         *)
(***************************************************************************)
IdList(items) == [kind |-> "list", items |-> items]
CrateIdInputs ==
    {IdList(<<>>), IdList(<<1>>), IdList(<<1, 2>>), IdList(<<2, 1>>),
     [kind |-> "str", items |-> <<>>], NoIds}
ShowIds == {1, 2}

\* x is type(list): type(list) is the class object `type`, and no value of a
\* JSON payload is that object.
is_type_of_list(crate_ids) == crate_ids.kind = "class type"

\* POST /api/v2/associate_crates
api_associate_crates(p, Creds) ==
    \E show_id \in ShowIds, crate_ids \in CrateIdInputs :
        Guard(p, [Idle EXCEPT !.op = "associate_crates",
                              !.arg = IntStr(show_id), !.ids = crate_ids],
              Creds)

\* The body of the handler: associate_crates tests crate_ids and runs one
\* INSERT INTO show_crate per listed id, ending at the first that does not
\* return True; the handler answers 500 for False and 201 for True.  id
\* counts the ids already inserted.
run_associate_crates(p, Faults) ==
    \E fault \in Faults :
        LET me == proc[p]
            i == me.id + 1
            result == insert(fault, FALSE, 0)
            called == [me EXCEPT !.calls = IF me.id = 0
                                           THEN Append(@, "associate_crates")
                                           ELSE @]
            c == [called EXCEPT !.dbok = @ /\ fault = "none"]
        IN  /\ me.pc = "associate"
            /\ IF ~is_type_of_list(me.ids)
               THEN /\ fault = "none"
                    /\ UNCHANGED show_crate
                    /\ Return(p, called, PyFalse, 500, "", FALSE)
               ELSE IF i > Len(me.ids.items)
               THEN /\ fault = "none"
                    /\ UNCHANGED show_crate
                    /\ Return(p, called, PyTrue, 201, "", FALSE)
               ELSE /\ show_crate' =
                          IF Committed(fault)
                          THEN show_crate \cup
                               {[show_id |-> me.arg.n,
                                 crate_id |-> me.ids.items[i]]}
                          ELSE show_crate
                    /\ IF result # PyTrue
                       THEN Return(p, c, PyFalse, 500, "", Committed(fault))
                       ELSE IF i = Len(me.ids.items)
                       THEN Return(p, c, PyTrue, 201, "", TRUE)
                       ELSE Goto(p, [c EXCEPT !.id = i], "associate", TRUE)
            /\ UNCHANGED <<song, open, now, tables, hist>>

(***************************************************************************)
(* Ticket query and lifecycle (postgres.get_unprinted_tickets /            *)
(* mark_ticket_as_printed).                                                *)
(***************************************************************************)
\* pg_timezone_names: the zone names the store knows, with their
\* abbreviation and offset from UTC in seconds.
TimeZoneNames ==
    {[name |-> "Etc/UTC", abbrev |-> "UTC", utc_offset |-> 0],
     [name |-> "Asia/Tokyo", abbrev |-> "JST", utc_offset |-> 9 * HourSeconds]}

\* request.args.get('time_zone'): a zone name, an unknown name, or None.
TimeZoneInputs == {"Etc/UTC", "Asia/Tokyo", "Mars/Olympus", "None"}

\* The request view: one row per ticket that has a variant record.
RequestView ==
    {t \in ticket :
        \/ \E s \in selected_request : s.ticket_id = t.ticket_id
        \/ \E f \in freeform_request : f.ticket_id = t.ticket_id}

\* WHERE printed = false, with the filter left out.
Unprinted_all(rows) == rows

\* WHERE printed = false
Unprinted(rows) == {t \in rows : t.printed = FALSE}

\* to_char(requested_at AT TIME ZONE tz, ...) AS requested_at, abbrev AS tz_abbrev
RenderRow(t, z) ==
    [ticket_id |-> t.ticket_id, ip_address |-> t.ip_address,
     requested_at |-> t.requested_at + z.utc_offset, tz_abbrev |-> z.abbrev]

\* ORDER BY request.requested_at: order lists rows in an order the store may
\* return them in.
OrderedBy(order, rows) ==
    /\ Len(order) = Cardinality(rows)
    /\ {order[i] : i \in 1..Len(order)} = rows
    /\ \A i, j \in 1..Len(order) :
          i < j => order[i].requested_at <= order[j].requested_at

Orders(rows) ==
    {order \in UNION {[1..k -> rows] : k \in {Cardinality(rows)}} :
        OrderedBy(order, rows)}

\* INNER JOIN pg_timezone_names ON %s = pg_timezone_names.name
get_unprinted_tickets(time_zone, fault, order) ==
    LET zones == {z \in TimeZoneNames : z.name = time_zone}
        joined == IF zones = {} THEN <<>>
                  ELSE [i \in 1..Len(order) |->
                           RenderRow(order[i], CHOOSE z \in zones : TRUE)]
        rows == select(fault, joined, <<>>)
    IN  IF rows.isNone THEN [ret |-> PyNone, rows |-> <<>>]
        ELSE IF Len(rows.rows) = 0 THEN [ret |-> PyNone, rows |-> <<>>]
        ELSE [ret |-> PyTrue, rows |-> rows.rows]

\* UPDATE ticket SET printed = NOT printed
mark_ticket_as_printed_toggle(ticket_id, fault) ==
    LET id == py_UUID(ticket_id)
        result == insert(fault, FALSE, 0)
    IN  IF ~id.ok THEN [ret |-> PyFalse, ticket |-> ticket]
        ELSE [ret |-> result,
              ticket |-> IF Committed(fault)
                         THEN {IF t.ticket_id = id.val
                               THEN [t EXCEPT !.printed = ~t.printed]
                               ELSE t : t \in ticket}
                         ELSE ticket]

mark_ticket_as_printed(ticket_id, fault) ==
    LET id == py_UUID(ticket_id)
        result == insert(fault, FALSE, 0)
    IN  IF ~id.ok THEN [ret |-> PyFalse, ticket |-> ticket]
        ELSE [ret |-> result,
              ticket |-> IF Committed(fault)
                         THEN {IF t.ticket_id = id.val
                               THEN [t EXCEPT !.printed = TRUE]
                               ELSE t : t \in ticket}
                         ELSE ticket]

TicketIdInputs == {Text(3)} \cup {UuidStr(k) : k \in 1..(MaxPrint + 1)}

\* get_unprinted_tickets called on its own: one SELECT.
call_get_unprinted_tickets ==
    \E time_zone \in TimeZoneInputs, fault \in SelectFaults :
    \E order \in Orders(Unprinted(RequestView)) :
    \E r \in {get_unprinted_tickets(time_zone, fault, order)} :
        /\ last' = [NoCall EXCEPT
                      !.op = "get_unprinted_tickets", !.msg = time_zone,
                      !.ret = r.ret, !.rows = r.rows,
                      !.dbok = (fault = "none")]
        /\ UNCHANGED <<library, open, proc, now, tables, hist>>

\* mark_ticket_as_printed called on its own: at most one UPDATE.
call_mark_ticket_as_printed ==
    \E ticket_id \in TicketIdInputs, fault \in InsertFaults :
    \E r \in {mark_ticket_as_printed(ticket_id, fault)} :
        /\ ticket' = r.ticket
        /\ last' = [NoCall EXCEPT
                      !.op = "mark_ticket_as_printed", !.arg = ticket_id,
                      !.ret = r.ret,
                      !.dbok = (fault = "none"),
                      !.was = \E t \in ticket :
                                 t.ticket_id = ticket_id.n /\ t.printed]
        /\ hist' = IF Truthy(r.ret) /\ \E t \in ticket : t.ticket_id = ticket_id.n
                   THEN [hist EXCEPT !.marked = @ \cup {ticket_id.n}]
                   ELSE hist
        /\ proc' = Others(0, r.ticket # ticket)
        /\ UNCHANGED <<library, open, now, credential, blocklist, crate, artist,
                       selected_request, freeform_request>>

(***************************************************************************)
(* The insert and select helpers run one step at a time by several         *)
(* workers: connect_db, SET TIME ZONE (select with a time zone), execute,  *)
(* commit (insert), and the exit that returns to the caller.  open counts  *)
(* the connections that connect_db handed out and db.close() has not       *)
(* closed.  A call is drawn with its statement and data, the outcome of    *)
(* its statements (fault) and its flag (return_inserted_row_id, or a time  *)
(* zone being given).  The row of an INSERT is visible to the other        *)
(* connections from its commit on; the id of its RETURNING clause is drawn *)
(* from the table's sequence when the statement is executed.               *)
(***************************************************************************)
\* The statements the helpers are called with, by their data:
\*   INSERT INTO crate (crate_name) VALUES (%s) RETURNING crate_id
\*   SELECT crate_id FROM crate WHERE crate_name = %s       (arg: the name)
\*   INSERT INTO blocklist (ip_address, reverse_dns, notes) VALUES (...)
\*                                        (ip: the address, arg: the notes)
HelperStatements(op) ==
    IF op = "insert"
    THEN {[ip |-> NoIP, arg |-> Name(1)], [ip |-> "10.0.0.1", arg |-> Absent]}
    ELSE {[ip |-> NoIP, arg |-> Name(1)]}

\* Whether db.close() runs on the exit path of insert taken with this
\* outcome, with the close of the commit-failure path left out.
insert_closes_leaky(fault, return_inserted_row_id, rid) == fault # "commit"

\* Whether db.close() runs on the exit path of insert taken after connect_db
\* returned a connection.
insert_closes(fault, return_inserted_row_id, rid) ==
    IF fault = "execute" THEN TRUE
    ELSE IF fault = "commit" THEN TRUE
    ELSE IF return_inserted_row_id
         THEN (IF rid = 0 THEN TRUE ELSE TRUE)
         ELSE TRUE

\* The same for select: time-zone failure, execution failure, rows fetched.
select_closes(fault) ==
    IF fault = "tz" THEN TRUE
    ELSE IF fault = "execute" THEN TRUE
    ELSE TRUE

HelperReturn(c) ==
    IF c.op = "insert" THEN insert(c.fault, c.flag, c.id)
    ELSE IF select(c.fault, {r \in crate : r.name = c.arg}, {}).isNone
    THEN PyNone
    ELSE PyTrue

\* The call returns to its caller; holding tells whether it has a
\* connection, wrote whether its statement was committed.
HelperExit(p, c, holding, wrote) ==
    LET closes == IF c.op = "insert" THEN insert_closes(c.fault, c.flag, c.id)
                  ELSE select_closes(c.fault)
    IN  /\ open' = IF holding /\ closes THEN open - 1 ELSE open
        /\ proc' = [Others(p, wrote) EXCEPT ![p] = Idle]
        /\ last' = [NoCall EXCEPT !.op = c.op, !.ip = c.ip, !.arg = c.arg,
                       !.msg = c.fault, !.ret = HelperReturn(c),
                       !.was = c.flag, !.dbok = (c.fault = "none")]

\* The crate ids in use: those committed and those an INSERT that has been
\* executed holds.
HelperIds ==
    {0} \cup {r.id : r \in crate}
        \cup {proc[q].id : q \in {w \in Procs : /\ proc[w].pc = "commit"
                                                 /\ proc[w].ip = NoIP}}

\* insert(query, data, return_inserted_row_id) or select(query, data,
\* time_zone=...) is called.  The id of the new row is asked only of a
\* statement with a RETURNING clause, as at every call site of the program.
\* An INSERT into crate is called while the ids in use and the INSERTs into
\* crate not yet executed leave an id under the bound.
helper_call(p) ==
    \E op \in {"insert", "select"}, flag \in BOOLEAN :
    \E data \in HelperStatements(op) :
    \E fault \in (IF op = "insert" THEN InsertFaults
                  ELSE SelectFaults \cup {"tz"}) :
        LET pending == {q \in Procs : /\ proc[q].op = "insert"
                                      /\ proc[q].ip = NoIP
                                      /\ proc[q].pc \in {"connect", "execute"}}
        IN
        /\ Free(p)
        /\ fault = "tz" => flag
        /\ (op = "insert" /\ flag) => data.ip = NoIP
        /\ (op = "insert" /\ data.ip = NoIP) =>
              \A n \in HelperIds : n + Cardinality(pending) < MaxCatalog
        /\ proc' = [proc EXCEPT ![p] = [Idle EXCEPT !.pc = "connect",
                       !.op = op, !.ip = data.ip, !.arg = data.arg,
                       !.fault = fault, !.flag = flag]]
        /\ last' = NoCall
        /\ UNCHANGED <<library, open, now, tables, hist>>

helper_connect(p) ==
    /\ proc[p].pc = "connect"
    /\ IF proc[p].fault = "connect"
       THEN HelperExit(p, proc[p], FALSE, FALSE)
       ELSE /\ open < MaxOpen
            /\ open' = open + 1
            /\ proc' = [proc EXCEPT
                          ![p].pc = IF proc[p].op = "select" /\ proc[p].flag
                                    THEN "set_tz" ELSE "execute"]
            /\ last' = NoCall
    /\ UNCHANGED <<library, now, tables, hist>>

helper_set_tz(p) ==
    /\ proc[p].pc = "set_tz"
    /\ IF proc[p].fault = "tz"
       THEN HelperExit(p, proc[p], TRUE, FALSE)
       ELSE /\ proc' = [proc EXCEPT ![p].pc = "execute"]
            /\ last' = NoCall
            /\ UNCHANGED open
    /\ UNCHANGED <<library, now, tables, hist>>

\* cursor.execute(query, data): select() fetches the rows and returns; the
\* INSERT into crate takes the next value of the sequence of crate_id,
\* which is past every id committed and every id another statement holds.
helper_execute(p) ==
    LET new_id == (CHOOSE n \in HelperIds :
                      \A k \in HelperIds : k <= n) + 1
    IN  /\ proc[p].pc = "execute"
        /\ IF proc[p].fault = "execute" \/ proc[p].op = "select"
           THEN HelperExit(p, proc[p], TRUE, FALSE)
           ELSE /\ proc' = [proc EXCEPT
                              ![p].pc = "commit",
                              ![p].id = IF proc[p].ip = NoIP THEN new_id
                                        ELSE 0]
                /\ last' = NoCall
                /\ UNCHANGED open
        /\ UNCHANGED <<library, now, tables, hist>>

\* db.commit(): the row of the statement is stored, and the call returns
\* the id, True, or False when the commit failed.
helper_commit(p) ==
    LET c == proc[p]
        wrote == Committed(c.fault)
    IN  /\ c.pc = "commit"
        /\ crate' = IF wrote /\ c.ip = NoIP
                    THEN crate \cup {[id |-> c.id, name |-> c.arg]}
                    ELSE crate
        /\ blocklist' = IF wrote /\ c.ip # NoIP
                        THEN blocklist
                               \cup {[ip_address |-> c.ip,
                                      reverse_dns |-> get_reverse_dns(c.ip),
                                      notes |-> c.arg]}
                        ELSE blocklist
        /\ HelperExit(p, c, TRUE, wrote)
        /\ UNCHANGED <<library, now, credential, artist, ticket,
                       selected_request, freeform_request, hist>>
(***************************************************************************)
(* Properties.  A property about a call is stated on the step that ends    *)
(* it: last' is the call's record.                                         *)
(***************************************************************************)
TicketTables == <<ticket, selected_request, freeform_request>>

MissingOrEmpty(form, key) == form[key].kind = "absent" \/ form[key].len = 0

InvalidCommon(form) ==
    \/ MissingOrEmpty(form, "show_id") \/ form.show_id.cls # "int"
    \/ MissingOrEmpty(form, "submitted_by")

InvalidSelected(form) ==
    \/ InvalidCommon(form)
    \/ MissingOrEmpty(form, "song_id") \/ form.song_id.cls # "uuid"

InvalidFreeform(form) ==
    \/ InvalidCommon(form)
    \/ MissingOrEmpty(form, "artist_name")
    \/ MissingOrEmpty(form, "song_title")

AdmissionPrefix(calls) ==
    /\ Len(calls) >= 1 => calls[1] = "is_blocked"
    /\ Len(calls) >= 2 => calls[2] = "is_rate_limited"
    /\ Len(calls) >= 3 => calls[3] \in IntakeCalls

(***************************************************************************)
(* C1.  Admission order on both submission endpoints: a request without a  *)
(* filled email field, whose statements the store answers, is rejected     *)
(* after the blocklist check alone when its address is blocked (no rate    *)
(* check, no row written); else, no other request writing in between, it   *)
(* is rejected after the rate check with the distinct "Rate-limited"       *)
(* answer when the address is rate-limited (no row written); and only      *)
(* otherwise handed to ticket intake.  The checks always run in this       *)
(* order, and the two INSERTs are run only by a request that passed both.  *)
(***************************************************************************)
C1_State ==
    \A p \in Procs :
        (proc[p].op \in ApiOps /\ proc[p].pc \in {"ticket", "variant"}) =>
            /\ Len(proc[p].calls) >= 3
            /\ AdmissionPrefix(proc[p].calls)
            /\ ~proc[p].hit
            /\ proc[p].dbok => ~proc[p].blocked

C1_Step ==
    (last'.op \in ApiOps /\ ~EmailFilled(last'.form)) =>
        /\ last'.calls # <<>>
        /\ AdmissionPrefix(last'.calls)
        /\ last'.code = 401 =>
              /\ last'.calls = <<"is_blocked", "is_rate_limited">>
              /\ last'.msg = "Rate-limited"
              /\ last'.hit
              /\ UNCHANGED TicketTables
        /\ last'.dbok =>
              IF last'.blocked
              THEN /\ last'.calls = <<"is_blocked">>
                   /\ last'.code = 500 /\ last'.msg = MsgWrong
                   /\ UNCHANGED TicketTables
              ELSE IF last'.quiet /\ last'.tripped
              THEN /\ last'.calls = <<"is_blocked", "is_rate_limited">>
                   /\ last'.code = 401 /\ last'.msg = "Rate-limited"
                   /\ <<last'.code, last'.msg>> # <<500, MsgWrong>>
                   /\ UNCHANGED TicketTables
              ELSE last'.quiet => Len(last'.calls) >= 3

C1_AdmissionOrder == []C1_State /\ [][C1_Step]_vars

C1_Witness ==
    /\ last.op \in ApiOps /\ last.dbok /\ last.quiet
    /\ last.code = 401
    /\ blocklist # {}
    /\ ~Blocked(last.ip)

(***************************************************************************)
(* C5.  Honeypot: a payload whose email field is non-empty gets the        *)
(* success-shaped answer, no check is run and no table changes, whatever   *)
(* the address and the other fields.                                       *)
(***************************************************************************)
C5_Step ==
    (last'.op \in ApiOps /\ last'.form.email.kind = "str"
                         /\ last'.form.email.len > 0) =>
        /\ last'.code = 201 /\ last'.msg = "Success!"
        /\ last'.calls = <<>>
        /\ UNCHANGED tables

C5_Honeypot == [][C5_Step]_vars

C5_Witness ==
    /\ last.op \in ApiOps
    /\ last.form = Honeypot(NoForm)
    /\ Blocked(last.ip)
    /\ \E ip \in IPs : Tripped(ip)
    /\ last.code = 201

(***************************************************************************)
(* C4.  Blocklist monotonicity: once add_to_blocklist has reported an      *)
(* address stored, every is_blocked call for it that the store answers     *)
(* returns True; no step removes a blocklist row; and an address whose     *)
(* reverse lookup fails is stored all the same, with a null reverse_dns.   *)
(***************************************************************************)
C4_State ==
    /\ (last.op = "is_blocked" /\ last.ip \in hist.blockedOk /\ last.dbok)
           => last.ret = PyTrue
    /\ (last.op = "block_ip" /\ last.dbok
            /\ last.calls = <<"verify_api_key", "add_to_blocklist">>)
           => /\ last.ret = PyTrue /\ last.code = 201
              /\ last.ip \in hist.blockedOk
              /\ \E b \in blocklist :
                    /\ b.ip_address = last.ip
                    /\ b.notes = last.arg
                    /\ (PTR(last.ip) = "herror" => b.reverse_dns = NULL)

C4_BlocklistMonotone == []C4_State /\ [][blocklist \subseteq blocklist']_vars

C4_Witness ==
    /\ last.op = "is_blocked" /\ last.ret = PyTrue
    /\ PTR(last.ip) = "herror"
    /\ \E b \in blocklist : b.ip_address = last.ip /\ b.reverse_dns = NULL

(***************************************************************************)
(* C6.  Validation before write: a submission with a required field        *)
(* missing or empty, a show_id that is no integer or a song_id that is no  *)
(* UUID returns False, runs no INSERT and leaves every table as it was.    *)
(***************************************************************************)
InvalidFor(op, form) ==
    IF op \in SelectedOps THEN InvalidSelected(form) ELSE InvalidFreeform(form)

C6_State ==
    \A p \in Procs :
        proc[p].pc \in {"ticket", "variant"} =>
            ~InvalidFor(proc[p].op, proc[p].form)

C6_Step ==
    (last'.op \in IntakeCalls /\ InvalidFor(last'.op, last'.form)) =>
        /\ last'.ret = PyFalse
        /\ last'.calls = <<>>
        /\ UNCHANGED tables

C6_ValidationBeforeWrite == []C6_State /\ [][C6_Step]_vars

C6_Witness ==
    /\ last.op = "add_selected_request"
    /\ last.form.song_id = Text(3)
    /\ last.ret = PyFalse
    /\ ticket # {}

(***************************************************************************)
(* C7.  Ticket/variant invariant: every ticket row is referenced by        *)
(* exactly one row of selected_request or freeform_request.  Stated here   *)
(* for the states in which no submission is under way; between the two     *)
(* INSERTs of a submission the ticket has no variant row yet.              *)
(***************************************************************************)
Variants(id) ==
    Cardinality({s \in selected_request : s.ticket_id = id})
    + Cardinality({f \in freeform_request : f.ticket_id = id})

C7_TicketHasOneVariant ==
    (\A p \in Procs : proc[p].pc = "idle") =>
        \A t \in ticket : Variants(t.ticket_id) = 1

(***************************************************************************)
(* C16.  Two-step write ordering: when the ticket insert of a submission   *)
(* fails (no ticket id comes back), the call ends there and the variant    *)
(* insert is not run.                                                      *)
(***************************************************************************)
C16_NoVariantAfterFailedTicket ==
    \A p \in Procs : proc[p].pc = "variant" => proc[p].tid.t = "id"

C16_Witness ==
    /\ last.op = "add_selected_request"
    /\ last.ret = PyFalse
    /\ last.tid = PyFalse
    /\ last.calls = <<"insert ticket", "insert selected_request">>
    /\ ticket = {}

(***************************************************************************)
(* C2.  Rate-limit windows: an is_rate_limited call the store answers      *)
(* returns True exactly when one of its three counts found at least 3      *)
(* tickets of the address in the trailing minute, at least 10 in the       *)
(* trailing hour, or at least 20 in the trailing day; with no ticket       *)
(* written and no time passing during the call, that is exactly when the   *)
(* address is over one of the three caps.  Three tickets that have grown   *)
(* older than a minute no longer trip it.                                  *)
(***************************************************************************)
C2_RateLimitWindows ==
    (last.op = "is_rate_limited" /\ last.dbok) =>
        /\ last.ret \in {PyTrue, PyFalse}
        /\ last.ret = PyTrue <=> last.hit
        /\ last.quiet => (last.ret = PyTrue <=> Tripped(last.ip))

C2_Witness ==
    /\ last.op = "is_rate_limited" /\ last.dbok /\ last.quiet
    /\ last.ret = PyFalse
    /\ now = DaySeconds + MinuteSeconds + 1
    /\ Cardinality({t \in ticket : t.ip_address = last.ip
                                   /\ t.requested_at = DaySeconds}) = MinuteCap

(***************************************************************************)
(* C3.  verify_api_key answers True exactly for an active credential and   *)
(* the secret issued with it, and answers False, never anything else, in   *)
(* every other case.                                                       *)
(***************************************************************************)
Authentic(credential_id, secret) ==
    /\ credential_id.cls = "uuid"
    /\ \E c \in credential : c.credential_id = credential_id.n /\ c.active
    /\ [credential_id |-> credential_id.n, secret |-> secret] \in hist.issued

C3_VerifyFailsClosed ==
    (last.op = "verify_api_key" /\ last.dbok) =>
        /\ last.ret \in {PyTrue, PyFalse}
        /\ last.ret = PyTrue <=> Authentic(last.arg, last.arg2)

\* What does hold: True is answered only for an authentic pair, and an
\* authentic pair is answered True.
C3_NeverWronglyTrue ==
    (last.op = "verify_api_key" /\ last.dbok) =>
        (last.ret = PyTrue <=> Authentic(last.arg, last.arg2))

C3_Witness ==
    /\ last.op = "verify_api_key" /\ last.dbok
    /\ last.ret = PyRaise
    /\ \E c \in credential : c.credential_id = last.arg.n /\ c.active

(***************************************************************************)
(* C10.  Sequential idempotence of the resolver: two successive calls of   *)
(* create_crate (create_artist) with the same non-empty name, one after    *)
(* the other and both answered by the store, return the same value, and    *)
(* afterwards exactly one row carries that name.                           *)
(***************************************************************************)
RowsNamed(table, name) == Cardinality({c \in table : c.name = name})

C10_Step ==
    \A r \in hist.resolved :
        (/\ last'.op \in CatalogOps /\ last'.op = r.op
         /\ r.name # Absent /\ last'.arg = r.name
         /\ last'.dbok /\ last'.quiet) =>
            /\ last'.ret = r.ret
            /\ r.op = "create_crate" => RowsNamed(crate', r.name) = 1
            /\ r.op = "create_artist" => RowsNamed(artist', r.name) = 1

C10_ResolveTwiceSameId == [][C10_Step]_vars

C10_Witness ==
    /\ last.op = "create_crate" /\ last.dbok /\ last.quiet
    /\ last.ret.t = "row"
    /\ RowsNamed(crate, last.arg) = 1
    /\ \A p \in Procs : proc[p].pc = "idle"

(***************************************************************************)
(* C13.  Catalog name uniqueness: at most one crate row and at most one    *)
(* artist row carries a given name, whatever the interleaving of the       *)
(* resolver calls.                                                         *)
(***************************************************************************)
C13_UniqueNames ==
    \A name \in {Name(1), Name(2)} :
        /\ RowsNamed(crate, name) <= 1
        /\ RowsNamed(artist, name) <= 1

C13_Witness ==
    /\ RowsNamed(crate, Name(1)) = 2
    /\ \A p \in Procs : proc[p].pc = "idle"
    /\ last.op = "create_crate" /\ last.ret = PyId(2)

(***************************************************************************)
(* C8.  Print lifecycle: a valid freeform submission from an address that  *)
(* is neither blocked nor rate-limited is answered with a ticket id; from  *)
(* then on every get_unprinted_tickets call the store answers, for a zone  *)
(* name it knows, lists that ticket, in ascending requested_at order with  *)
(* the other unprinted tickets, until mark_ticket_as_printed has reported  *)
(* it marked, and never after.                                             *)
(***************************************************************************)
KnownZone(name) == \E z \in TimeZoneNames : z.name = name

Listed(rows) == {rows[i].ticket_id : i \in 1..Len(rows)}

StoredAt(id) == (CHOOSE t \in ticket : t.ticket_id = id).requested_at

C8_State ==
    /\ (last.op = "api_add_freeform_request" /\ last.code = 201
            /\ ~EmailFilled(last.form))
           => /\ last.ret.t = "id"
              /\ last.ret.n \in hist.submitted
              /\ \E t \in ticket : t.ticket_id = last.ret.n
    /\ (last.op = "get_unprinted_tickets" /\ last.dbok /\ KnownZone(last.msg))
           => /\ \A id \in hist.submitted :
                    id \in Listed(last.rows) <=> id \notin hist.marked
              /\ \A i, j \in 1..Len(last.rows) :
                    i < j => /\ last.rows[i].ticket_id # last.rows[j].ticket_id
                             /\ StoredAt(last.rows[i].ticket_id)
                                    <= StoredAt(last.rows[j].ticket_id)
              /\ last.ret = PyNone <=> last.rows = <<>>

C8_Step ==
    (/\ last'.op = "api_add_freeform_request"
     /\ ~InvalidFreeform(last'.form) /\ ~EmailFilled(last'.form)
     /\ ~last'.blocked /\ ~last'.tripped /\ last'.quiet /\ last'.dbok)
        => /\ last'.code = 201
           /\ last'.ret.t = "id"
           /\ \E t \in ticket' :
                 /\ t.ticket_id = last'.ret.n
                 /\ t.printed <=> t.ticket_id \in hist'.marked

C8_PrintLifecycle == []C8_State /\ [][C8_Step]_vars

C8_Witness ==
    /\ last.op = "get_unprinted_tickets" /\ last.dbok
    /\ last.msg = "Asia/Tokyo"
    /\ Len(last.rows) = 1
    /\ hist.marked # {}
    /\ Cardinality(hist.submitted) = 2

(***************************************************************************)
(* C9.  mark_ticket_as_printed is idempotent: for an existing ticket id,   *)
(* every call the store answers reports success and leaves printed true,   *)
(* the first time and every later time; no step sets printed back to false *)
(* or removes a ticket.                                                    *)
(***************************************************************************)
C9_State ==
    /\ (last.op = "mark_ticket_as_printed" /\ last.dbok
            /\ last.arg.cls = "uuid"
            /\ \E t \in ticket : t.ticket_id = last.arg.n)
           => /\ last.ret = PyTrue
              /\ \A t \in ticket : t.ticket_id = last.arg.n => t.printed
    /\ \A id \in hist.marked :
           \E t \in ticket : t.ticket_id = id /\ t.printed

C9_Step ==
    \A t \in ticket :
        \E u \in ticket' :
            /\ u.ticket_id = t.ticket_id
            /\ t.printed => u.printed

C9_MarkPrintedIdempotent == []C9_State /\ [][C9_Step]_vars

C9_Witness ==
    /\ last.op = "mark_ticket_as_printed" /\ last.dbok
    /\ last.was
    /\ last.ret = PyTrue
    /\ \E t \in ticket : t.ticket_id = last.arg.n /\ t.printed

(***************************************************************************)
(* C11.  Song upsert keyed by hash: no two song rows share a hash; a call  *)
(* the store answers, with a hash already present, adds no row, returns    *)
(* the id of the existing row, and leaves that row holding the call's      *)
(* artist, title, tempo and key.                                           *)
(***************************************************************************)
C11_State == \A r1, r2 \in song : r1.hash = r2.hash => r1 = r2

C11_Step ==
    \A r \in song :
        (/\ last'.op = "insert_song_metadata" /\ last'.dbok
         /\ ~last'.meta.empty
         /\ last'.meta.crate_name # Absent /\ last'.meta.artist # Absent
         /\ last'.meta.hash.cls = "hex" /\ last'.meta.hash.n = r.hash)
            => /\ Cardinality(song') = Cardinality(song)
               /\ last'.ret = PyId(r.song_id)
               /\ \E u \in song' :
                     /\ u.song_id = r.song_id /\ u.hash = r.hash
                     /\ u.song_title = last'.meta.title
                     /\ u.song_tempo = last'.meta.tempo
                     /\ u.song_key = last'.meta.key
                     /\ \E a \in artist' : /\ a.id = u.artist_id
                                           /\ a.name = last'.meta.artist

C11_SongUpsert == []C11_State /\ [][C11_Step]_vars

C11_Witness ==
    /\ last.op = "insert_song_metadata" /\ last.dbok /\ last.was
    /\ last.ret.t = "id"
    /\ Cardinality(song) = 1
    /\ \E u \in song : /\ u.song_title = last.meta.title
                       /\ u.song_id = last.ret.n

(***************************************************************************)
(* C15.  Crate association: an authenticated call with a list of crate     *)
(* ids, answered by the store, returns True, is answered 201 and leaves    *)
(* one show_crate row per listed id; a call with anything else returns     *)
(* False.                                                                  *)
(***************************************************************************)
C15_AssociateCrates ==
    (last.op = "associate_crates" /\ last.dbok
        /\ last.calls = <<"verify_api_key", "associate_crates">>) =>
        IF last.ids.kind = "list"
        THEN /\ last.ret = PyTrue /\ last.code = 201
             /\ \A i \in 1..Len(last.ids.items) :
                   [show_id |-> last.arg.n, crate_id |-> last.ids.items[i]]
                       \in show_crate
        ELSE last.ret = PyFalse

C15_Witness ==
    /\ last.op = "associate_crates" /\ last.dbok
    /\ last.calls = <<"verify_api_key", "associate_crates">>
    /\ last.ids = IdList(<<1, 2>>)
    /\ last.ret = PyFalse /\ last.code = 500
    /\ show_crate = {}

(***************************************************************************)
(* C12.  Rate limit as a hard cap: the ticket table never holds more than  *)
(* 3 tickets of one address inside the trailing minute, more than 10       *)
(* inside the trailing hour, or more than 20 inside the trailing day.      *)
(***************************************************************************)
C12_HardCap ==
    \A ip \in IPs :
        /\ Cardinality(TicketsWithin(ip, MinuteSeconds)) <= MinuteCap
        /\ Cardinality(TicketsWithin(ip, HourSeconds)) <= HourCap
        /\ Cardinality(TicketsWithin(ip, DaySeconds)) <= DayCap

C12_Witness ==
    /\ \E ip \in IPs : Cardinality(TicketsWithin(ip, MinuteSeconds)) > MinuteCap
    /\ \A p \in Procs : proc[p].pc = "idle"
    /\ last.code = 201

(***************************************************************************)
(* C14.  Scoped connection release: the open connections are exactly those *)
(* of the helper calls still running; a call that has returned, on any     *)
(* exit path, has closed its connection, so with no call in flight no      *)
(* connection is open.                                                     *)
(***************************************************************************)
Holding(p) == proc[p].pc \in {"set_tz", "execute", "commit"}

C14_ConnectionsReleased ==
    /\ open = Cardinality({p \in Procs : Holding(p)})
    /\ (\A p \in Procs : proc[p].pc = "idle") => open = 0

C14_Witness ==
    /\ last.op = "select" /\ last.msg = "tz" /\ last.ret = PyNone
    /\ \A p \in Procs : proc[p].pc = "idle"
    /\ open = 0

(***************************************************************************)
(* Specifications.  Each takes the steps of one part of the program, run   *)
(* by every worker.                                                        *)
(***************************************************************************)
\* The address the submissions of a specification come from, where one
\* address is enough.
OneAddress == {"10.0.0.1"}

\* Admission: the submission endpoints, the blocklist and its endpoint.
NextAdmission ==
    \/ call_create_api_key({1}, MaxKeys)
    \/ \E p \in Procs :
        \/ block_ip(p, {Issued}, {Absent})
        \/ run_verify_api_key(p, {"none"})
        \/ run_add_to_blocklist(p, {"none"})
        \/ api_add_selected_request(p, ApiSelectedForms, OneAddress)
        \/ api_add_freeform_request(p, ApiFreeformForms, OneAddress)
        \/ run_is_blocked(p, SelectFaults)
        \/ run_count_query(p, SelectFaults)
        \/ run_insert_ticket(p, {"none"}, MaxTickets)
        \/ run_insert_variant(p, {"none"})

SpecAdmission == Init /\ [][NextAdmission]_vars

\* The blocklist and its endpoint.
NextBlocklist ==
    \/ call_create_api_key({1}, MaxKeys)
    \/ call_is_blocked
    \/ \E p \in Procs :
        \/ block_ip(p, Credentials, NoteValues)
        \/ run_verify_api_key(p, SelectFaults)
        \/ run_add_to_blocklist(p, InsertFaults)

SpecBlocklist == Init /\ [][NextBlocklist]_vars

\* Ticket intake called on its own, with every payload and every outcome of
\* its two INSERTs.
NextIntake ==
    \E p \in Procs :
        \/ add_selected_request(p, SelectedForms, OneAddress)
        \/ add_freeform_request(p, FreeformForms, OneAddress)
        \/ run_insert_ticket(p, InsertFaults, MaxIntake)
        \/ run_insert_variant(p, InsertFaults)

SpecIntake == Init /\ [][NextIntake]_vars

(***************************************************************************)
(* Rate limiting over a populated ticket table.  The table holds, for the  *)
(* first address, a tickets submitted just now, b submitted 59 minutes ago *)
(* and c submitted 23 h 59 min ago, none of the three windows being over   *)
(* its cap, and d tickets of the second address submitted just now.  One   *)
(* tick later the rows sit on the edge of their windows (60 s) or just     *)
(* past it (61 s).                                                         *)
(***************************************************************************)
TicketAt(id, ip, at) ==
    [ticket_id |-> id, show_id |-> 1, requested_by |-> Text(1),
     ip_address |-> ip, reverse_dns |-> get_reverse_dns(ip), notes |-> Absent,
     requested_at |-> at, printed |-> FALSE]

TicketLoad(a, b, c, d) ==
    {TicketAt(i, "10.0.0.1", DaySeconds) : i \in 1..a}
    \cup {TicketAt(a + i, "10.0.0.1", DaySeconds - HourSeconds + MinuteSeconds)
            : i \in 1..b}
    \cup {TicketAt(a + b + i, "10.0.0.1", MinuteSeconds) : i \in 1..c}
    \cup {TicketAt(a + b + c + i, "10.0.0.2", DaySeconds) : i \in 1..d}

InitRate ==
    /\ now = DaySeconds
    /\ credential = {}
    /\ blocklist = {}
    /\ crate = {}
    /\ artist = {}
    /\ \E a \in 0..MinuteCap, d \in {0, MinuteCap} :
       \E b \in {0, HourCap - a - 1, HourCap - a} :
       \E c \in {0, DayCap - a - b - 1, DayCap - a - b} :
          ticket = TicketLoad(a, b, c, d)
    /\ selected_request = {}
    /\ freeform_request =
           {[ticket_id |-> t.ticket_id, artist_name |-> Text(1),
             song_title |-> Text(1)] : t \in ticket}
    /\ last = NoCall
    /\ hist = NoHist
    /\ song = {}
    /\ show_crate = {}
    /\ proc = [p \in Procs |-> Idle]
    /\ open = 0

NextRate ==
    \/ Tick(TickSteps)
    \/ \E p \in Procs :
        \/ call_is_rate_limited(p)
        \/ run_count_query(p, SelectFaults)

SpecRate == InitRate /\ [][NextRate]_vars

\* The credential store.
NextCredential ==
    \/ call_create_api_key(SecretDraws, MaxCredentials)
    \/ call_verify_api_key
    \/ deactivate

SpecCredential == Init /\ [][NextCredential]_vars

\* The catalog resolver, with every outcome of its statements.
NextCatalog ==
    \E p \in Procs :
        \/ create_crate(p, CatalogNames)
        \/ create_artist(p, CatalogNames)
        \/ run_resolve_select(p, SelectFaults)
        \/ run_resolve_insert(p, InsertFaults, MaxCatalog)

SpecCatalog == Init /\ [][NextCatalog]_vars

\* The catalog resolver, every statement answered by the store.
NextResolve ==
    \E p \in Procs :
        \/ create_crate(p, {Name(1), Name(2)})
        \/ create_artist(p, {Name(1), Name(2)})
        \/ run_resolve_select(p, {"none"})
        \/ run_resolve_insert(p, {"none"}, MaxCatalog)

SpecResolve == Init /\ [][NextResolve]_vars

\* Submission, listing and marking of tickets: one worker serves the
\* submissions, and the listing and marking calls and the passing of time
\* fall between its statements.
PrintForms == {[FreeShort EXCEPT !.email = Text(0)]}

NextPrint ==
    \/ call_get_unprinted_tickets
    \/ call_mark_ticket_as_printed
    \/ Tick(TickSteps)
    \/ \E p \in {1} :
        \/ api_add_freeform_request(p, PrintForms, OneAddress)
        \/ run_is_blocked(p, {"none"})
        \/ run_count_query(p, {"none"})
        \/ run_insert_ticket(p, {"none"}, MaxPrint)
        \/ run_insert_variant(p, {"none"})

SpecPrint == Init /\ [][NextPrint]_vars

\* The song library.  A call that arrives while another is under way brings
\* the hash of the first input with another artist and title.
OverlappingSongs ==
    {Meta(Name(1), Name(2), Hex(1), 2), Meta(Name(1), Name(1), Hex(2), 1)}

NextLibrary ==
    \E p \in Procs :
        \/ insert_song_metadata(p, IF p = 1 THEN SongInputs
                                    ELSE OverlappingSongs)
        \/ run_resolve_select(p, {"none"})
        \/ run_resolve_insert(p, {"none"}, MaxCatalog)
        \/ run_song_upsert(p, InsertFaults, MaxSongs)

SpecLibrary == Init /\ [][NextLibrary]_vars

\* The crate association endpoint.
NextAssociate ==
    \/ call_create_api_key({1}, MaxKeys)
    \/ \E p \in Procs :
        \/ api_associate_crates(p, Credentials)
        \/ run_verify_api_key(p, SelectFaults)
        \/ run_associate_crates(p, InsertFaults)

SpecAssociate == Init /\ [][NextAssociate]_vars

\* The submission endpoints under load: valid payloads, every statement
\* answered by the store.
NextRace ==
    \E p \in Procs :
        \/ api_add_selected_request(p, {SelShort}, IPs)
        \/ api_add_freeform_request(p, PrintForms, IPs)
        \/ run_is_blocked(p, {"none"})
        \/ run_count_query(p, {"none"})
        \/ run_insert_ticket(p, {"none"}, MaxRace)
        \/ run_insert_variant(p, {"none"})

SpecRace == Init /\ [][NextRace]_vars

\* The insert and select helpers.
NextHelper ==
    \E p \in Procs :
        \/ helper_call(p)
        \/ helper_connect(p)
        \/ helper_set_tz(p)
        \/ helper_execute(p)
        \/ helper_commit(p)

SpecHelper == Init /\ [][NextHelper]_vars

\* The whole program.
Next ==
    \/ NextAdmission
    \/ NextBlocklist
    \/ NextIntake
    \/ NextRate
    \/ NextCredential
    \/ NextCatalog
    \/ NextResolve
    \/ NextPrint
    \/ NextLibrary
    \/ NextAssociate
    \/ NextRace
    \/ NextHelper

Spec == Init /\ [][Next]_vars

====
